---------------------------- MODULE Spec2Model ----------------------------
(***************************************************************************)
(* Model of the crossword CSP solver, CrosswordCreator, of                 *)
(* "Week 3/crossword/generate.py": domain initialisation, node             *)
(* consistency, AC-3 and heuristic backtracking search.                    *)
(*                                                                         *)
(* The Puzzle Model (crossword.py: Variable, overlaps, neighbors, words)   *)
(* is an external collaborator; it is modelled from its description as a   *)
(* grid of across/down slots whose overlaps are computed from the cells.   *)
(* Words are sequences of letters; Python's 0-based indices are kept in    *)
(* the overlap pairs and shifted by one where a word is indexed.           *)
(*                                                                         *)
(* The module also models the knowledge base of MinesweeperAI, of          *)
(* "Week 1/minesweeper/minesweeper.py", under a specification of its own,  *)
(* SpecMinesweeper; each specification leaves the other program's          *)
(* variables as they are.                                                  *)
(***************************************************************************)
EXTENDS Integers, Sequences, FiniteSets, TLC

\* ------------------------------------------------------------------ bounds
\* Largest word pool drawn for a puzzle.
MaxWords == 4
\* Number of ac3() calls a direct caller makes on one CrosswordCreator.
MaxAc3Calls == 2
\* Longest worklist handed to ac3(arcs).
MaxArcs == 1
\* Number of add_knowledge() calls made on one MinesweeperAI.
MaxMoves == 3

\* ------------------------------------------------------------ Puzzle Model
ACROSS == "across"
DOWN == "down"

\* A slot: starting row i, starting column j, direction, length.
Variable(i, j, direction, length) ==
    [i |-> i, j |-> j, direction |-> direction, length |-> length]

\* The candidate words a word pool is drawn from (letters a, b).
WordUniverse ==
    { <<"a","b">>, <<"b","a">>, <<"a","a">>,
      <<"a","b","a">>, <<"b","a","b">>, <<"a","b","b">> }

\* The grid structures: a star (one across slot crossed by two down slots),
\* a cross (overlap in the middle of both words), two parallel slots that
\* share no cell.
GridVariables ==
    <<  { Variable(0, 0, ACROSS, 3), Variable(0, 0, DOWN, 2), Variable(0, 2, DOWN, 3) },
        { Variable(1, 0, ACROSS, 3), Variable(0, 1, DOWN, 3) },
        { Variable(0, 0, ACROSS, 2), Variable(2, 0, ACROSS, 3) }  >>

\* The cells of a slot, in word order.
cells(v) ==
    [k \in 1..v.length |->
        << v.i + (IF v.direction = DOWN THEN k - 1 ELSE 0),
           v.j + (IF v.direction = ACROSS THEN k - 1 ELSE 0) >>]

\* "No overlap".
None == <<>>

\* crossword.overlaps[x, y]: None, or (index in x, index in y) of the shared cell.
overlaps(x, y) ==
    LET shared == { p \in (1..x.length) \X (1..y.length) : cells(x)[p[1]] = cells(y)[p[2]] }
    IN  IF shared = {} THEN None
        ELSE LET p == CHOOSE q \in shared : TRUE IN << p[1] - 1, p[2] - 1 >>

VARIABLES
    variables,   \* crossword.variables
    words,       \* crossword.words
    varOrder,    \* iteration order of crossword.variables (and of the domains dict)
    domains,     \* self.domains
    pc,          \* "new", "nc", "ac3", "ac3done", "backtrack", "returning", "done", "called"
    inSolve,     \* TRUE while solve() drives the calls, FALSE for direct calls
    queue,       \* ac3's worklist
    ac3ret,      \* what the last ac3() returned: "none", "True", "False"
    ac3Calls,    \* number of ac3() calls begun
    prev,        \* return value and domains of the ac3() call before the last one
    stack,       \* the frames of the recursive backtrack() calls
    result,      \* what solve() returned
    call,        \* the last direct call of a method and what it returned
    arcs,        \* the arcs argument of the running ac3() call, if one was given
    board,       \* Minesweeper: height, width and the set of mines
    ai,          \* MinesweeperAI: moves_made, mines, safes, knowledge
    move         \* what the last make_safe_move() returned

vars == << variables, words, varOrder, domains, pc, inSolve, queue, ac3ret,
           ac3Calls, prev, stack, result, call, arcs, board, ai, move >>

\* crossword.neighbors(var)
neighbors(var) == { v \in variables : v # var /\ overlaps(v, var) # None }

\* The orders in which a finite set may be iterated.
Perms(S) ==
    { f \in [1..Cardinality(S) -> S] : \A a, b \in 1..Cardinality(S) : a # b => f[a] # f[b] }

\* sorted(seq, key=...): stable, ascending.
RECURSIVE sorted(_, _)
sorted(seq, key) ==
    IF seq = <<>> THEN <<>>
    ELSE LET n    == Len(seq)
             init == sorted(SubSeq(seq, 1, n - 1), key)
             x    == seq[n]
             le   == SelectSeq(init, LAMBDA e : key[e] <= key[x])
             gt   == SelectSeq(init, LAMBDA e : key[e] > key[x])
         IN  le \o << x >> \o gt


\* ------------------------------------------------------- CrosswordCreator
\* __init__: every variable's domain is a copy of the whole word pool.
InitDomains(vs, ws) == [var \in vs |-> ws]

\* enforce_node_consistency() with >= for == on line 107.
enforce_node_consistency_ge ==
    [variable \in DOMAIN domains |->
        { x \in domains[variable] : Len(x) >= variable.length }]

\* enforce_node_consistency: the domains after the length filter.
enforce_node_consistency ==
    [variable \in DOMAIN domains |->
        { x \in domains[variable] : Len(x) = variable.length }]

\* revise() with all() for any() on line 129: a word is kept only if every
\* word of y agrees with it.
revise_all(x, y) ==
    LET overlap == overlaps(x, y)
    IN  IF overlap = None
        THEN [domain |-> domains[x], revised |-> FALSE]
        ELSE LET kept == { word_x \in domains[x] :
                             \A word_y \in domains[y] :
                                word_x[overlap[1] + 1] = word_y[overlap[2] + 1] }
             IN  [domain |-> kept, revised |-> kept # domains[x]]

\* revise() that walks the pool words of x's length, not self.domains[x],
\* on line 128.
revise_from_pool(x, y) ==
    LET overlap == overlaps(x, y)
    IN  IF overlap = None
        THEN [domain |-> domains[x], revised |-> FALSE]
        ELSE LET kept == { word_x \in { w \in words : Len(w) = x.length } :
                             \E word_y \in domains[y] :
                                word_x[overlap[1] + 1] = word_y[overlap[2] + 1] }
             IN  [domain |-> kept, revised |-> kept # domains[x]]

\* revise() that removes the unsupported words and always returns False.
revise_unflagged(x, y) ==
    LET overlap == overlaps(x, y)
    IN  IF overlap = None
        THEN [domain |-> domains[x], revised |-> FALSE]
        ELSE LET kept == { word_x \in domains[x] :
                             \E word_y \in domains[y] :
                                word_x[overlap[1] + 1] = word_y[overlap[2] + 1] }
             IN  [domain |-> kept, revised |-> FALSE]

\* revise() that reports a revision whether or not it removed a word.
revise_always_true(x, y) ==
    LET overlap == overlaps(x, y)
    IN  IF overlap = None
        THEN [domain |-> domains[x], revised |-> TRUE]
        ELSE LET kept == { word_x \in domains[x] :
                             \E word_y \in domains[y] :
                                word_x[overlap[1] + 1] = word_y[overlap[2] + 1] }
             IN  [domain |-> kept, revised |-> TRUE]

\* revise(x, y): x's domain after the revision, and the flag returned.
revise(x, y) ==
    LET overlap == overlaps(x, y)
    IN  IF overlap = None
        THEN [domain |-> domains[x], revised |-> FALSE]
        ELSE LET i == overlap[1]
                 j == overlap[2]
                 kept == { word_x \in domains[x] :
                             \E word_y \in domains[y] : word_x[i + 1] = word_y[j + 1] }
             IN  [domain |-> kept, revised |-> kept # domains[x]]

\* ac3(arcs=None), lines 149-152: the arcs (var, neighbor) of the problem.
AllArcs ==
    { a \in variables \X variables : a[2] \in neighbors(a[1]) /\ overlaps(a[1], a[2]) # None }

\* Position of a variable in the iteration order.
Pos(v) == CHOOSE k \in 1..Len(varOrder) : varOrder[k] = v

\* The worklist with each overlapping pair put once, not in both directions.
InitialQueuesOneWay ==
    { q \in Perms({ a \in AllArcs : Pos(a[1]) < Pos(a[2]) }) :
        \A a, b \in 1..Len(q) : a < b => Pos(q[a][1]) <= Pos(q[b][1]) }

\* The initial worklists the nested loops of lines 149-152 can build: the
\* outer loop follows the dict order, each neighbor set is iterated in some order.
InitialQueues ==
    { q \in Perms(AllArcs) :
        \A a, b \in 1..Len(q) : a < b => Pos(q[a][1]) <= Pos(q[b][1]) }

\* ac3() without the loop of lines 160-161: no arc is put back.
ArcsToRevisitNone(X, Y) == {}

\* ac3(), line 160: the neighbors Z of X whose arc (Z, X) is put back.
ArcsToRevisit(X, Y) == neighbors(X) \ {Y}

\* assignment_complete(assignment)
assignment_complete(assignment) ==
    \A variable \in variables : variable \in DOMAIN assignment

\* consistent() without the distinctness test of line 183.
consistent_without_distinct(assignment) ==
    IF \E var \in DOMAIN assignment : Len(assignment[var]) # var.length
    THEN FALSE
    ELSE ~ \E var \in DOMAIN assignment :
             \E neighbor \in neighbors(var) :
                /\ neighbor \in DOMAIN assignment
                /\ overlaps(var, neighbor) # None
                /\ assignment[var][overlaps(var, neighbor)[1] + 1]
                     # assignment[neighbor][overlaps(var, neighbor)[2] + 1]

\* consistent(assignment)
consistent(assignment) ==
    IF Cardinality({ assignment[v] : v \in DOMAIN assignment }) # Cardinality(DOMAIN assignment)
    THEN FALSE
    ELSE IF \E var \in DOMAIN assignment : Len(assignment[var]) # var.length
    THEN FALSE
    ELSE ~ \E var \in DOMAIN assignment :
             \E neighbor \in neighbors(var) :
                /\ neighbor \in DOMAIN assignment
                /\ overlaps(var, neighbor) # None
                /\ assignment[var][overlaps(var, neighbor)[1] + 1]
                     # assignment[neighbor][overlaps(var, neighbor)[2] + 1]

\* The count of lines 216-225 with == for != on line 224.
RECURSIVE CountAgreements(_, _, _)
CountAgreements(word, var, nbrs) ==
    IF nbrs = {} THEN 0
    ELSE LET neighbour == CHOOSE n \in nbrs : TRUE
             overlap == overlaps(var, neighbour)
             here == IF overlap = None THEN 0
                     ELSE Cardinality({ neighbour_word \in domains[neighbour] :
                             word[overlap[1] + 1] = neighbour_word[overlap[2] + 1] })
         IN  here + CountAgreements(word, var, nbrs \ {neighbour})

\* Lines 216-225: the eliminations counted for one word of var's domain,
\* summed neighbour by neighbour.
RECURSIVE CountEliminations(_, _, _)
CountEliminations(word, var, nbrs) ==
    IF nbrs = {} THEN 0
    ELSE LET neighbour == CHOOSE n \in nbrs : TRUE
             overlap == overlaps(var, neighbour)
             here == IF overlap = None THEN 0
                     ELSE Cardinality({ neighbour_word \in domains[neighbour] :
                             word[overlap[1] + 1] # neighbour_word[overlap[2] + 1] })
         IN  here + CountEliminations(word, var, nbrs \ {neighbour})

\* Lines 210-226: the least_constraining dict.
least_constraining(var, assignment) ==
    [word \in domains[var] |->
        CountEliminations(word, var, neighbors(var) \ DOMAIN assignment)]

\* order_domain_values(var, assignment); iter is the order in which the set
\* self.domains[var] is iterated by sorted().
order_domain_values(var, assignment, iter) ==
    sorted(iter, least_constraining(var, assignment))

\* Lines 251-255: the degree loop over mnrm[1:]. "degree" is read from
\* mnrm[0] and compared to highest_degree as a set (proper superset).
RECURSIVE DegreeLoop(_, _, _, _)
DegreeLoop(mnrm, k, result_value, highest_degree) ==
    IF k > Len(mnrm) THEN result_value
    ELSE LET other == mnrm[k]
             degree == neighbors(mnrm[1])
         IN  IF highest_degree \subseteq degree /\ degree # highest_degree
             THEN DegreeLoop(mnrm, k + 1, other, other)
             ELSE DegreeLoop(mnrm, k + 1, result_value, highest_degree)

\* select_unassigned_variable() without the domain-size sort of lines
\* 241-242: the first unassigned variable.
select_first_unassigned(assignment) ==
    SelectSeq(varOrder, LAMBDA v : v \notin DOMAIN assignment)[1]

\* select_unassigned_variable(assignment)
select_unassigned_variable(assignment) ==
    LET unassigned == SelectSeq(varOrder, LAMBDA v : v \notin DOMAIN assignment)
        byLen == sorted(unassigned, [x \in variables |-> Cardinality(domains[x])])
        mnrm == SelectSeq(byLen,
                    LAMBDA x : Cardinality(domains[x]) = Cardinality(domains[byLen[1]]))
    IN  IF Len(mnrm) = 1 THEN mnrm[1]
        ELSE DegreeLoop(mnrm, 2, mnrm[1], neighbors(mnrm[1]))


\* ------------------------------------------------------------ Minesweeper
Max(a, b) == IF a >= b THEN a ELSE b
Min(a, b) == IF a <= b THEN a ELSE b

\* The board sizes (height, width) a game is played on.
BoardSizes == { << 1, 4 >>, << 2, 3 >> }

\* The cells (i, j) of a board.
BoardCells(b) == (0..(b.height - 1)) \X (0..(b.width - 1))

\* Minesweeper.nearby_mines(cell): the mines within one row and column of
\* the cell, not counting the cell itself.
nearby_mines(b, cell) ==
    Cardinality(
        { c \in ((cell[1] - 1)..(cell[1] + 1)) \X ((cell[2] - 1)..(cell[2] + 1)) :
            /\ c # cell
            /\ 0 <= c[1] /\ c[1] < b.height /\ 0 <= c[2] /\ c[2] < b.width
            /\ c \in b.mines })

\* Sentence(cells, count)
Sentence(cs, count) == [cells |-> cs, count |-> count]

\* Sentence.known_mines()
known_mines(s) == IF Cardinality(s.cells) = s.count THEN s.cells ELSE {}

\* Sentence.known_safes()
known_safes(s) == IF s.count = 0 THEN s.cells ELSE {}

\* Sentence.mark_mine(cell)
Sentence_mark_mine(s, cell) ==
    IF cell \in s.cells THEN [cells |-> s.cells \ {cell}, count |-> s.count - 1] ELSE s

\* Sentence.mark_safe(cell)
Sentence_mark_safe(s, cell) ==
    IF cell \in s.cells THEN [cells |-> s.cells \ {cell}, count |-> s.count] ELSE s

\* MinesweeperAI.__init__
NewAI == [moves_made |-> {}, mines |-> {}, safes |-> {}, knowledge |-> <<>>]

\* MinesweeperAI.mark_mine(cell)
mark_mine(a, cell) ==
    [a EXCEPT !.mines = @ \cup {cell},
              !.knowledge = [k \in DOMAIN @ |-> Sentence_mark_mine(@[k], cell)]]

\* MinesweeperAI.mark_safe(cell)
mark_safe(a, cell) ==
    [a EXCEPT !.safes = @ \cup {cell},
              !.knowledge = [k \in DOMAIN @ |-> Sentence_mark_safe(@[k], cell)]]

\* MinesweeperAI.get_neighbors(cell): the cells around the cell that are
\* neither known safe nor known mines.
get_neighbors(a, b, cell) ==
    LET start_i == Max(0, cell[1] - 1)
        end_i == Min(b.height, cell[1] + 2)
        start_j == Max(0, cell[2] - 1)
        end_j == Min(b.width, cell[2] + 2)
    IN  { c \in (start_i..(end_i - 1)) \X (start_j..(end_j - 1)) :
            c # cell /\ c \notin a.safes /\ c \notin a.mines }

\* Lines 206-207: mark_safe for every cell of a set.
RECURSIVE MarkSafes(_, _)
MarkSafes(a, cs) ==
    IF cs = {} THEN a
    ELSE LET safe == CHOOSE c \in cs : TRUE
         IN  MarkSafes(mark_safe(a, safe), cs \ {safe})

\* Lines 210-211: mark_mine for every cell of a set.
RECURSIVE MarkMines(_, _)
MarkMines(a, cs) ==
    IF cs = {} THEN a
    ELSE LET mine == CHOOSE c \in cs : TRUE
         IN  MarkMines(mark_mine(a, mine), cs \ {mine})

\* MinesweeperAI.aditional_safe_or_mines()
RECURSIVE aditional_safe_or_mines(_)
aditional_safe_or_mines(a) ==
    LET safes == UNION { known_safes(a.knowledge[k]) : k \in DOMAIN a.knowledge }
        mines == UNION { known_mines(a.knowledge[k]) : k \in DOMAIN a.knowledge }
        a1 == MarkSafes(a, safes \ a.safes)
        a2 == MarkMines(a1, mines \ a1.mines)
        knowlege_changed == (safes \ a.safes # {}) \/ (mines \ a1.mines # {})
        a3 == [a2 EXCEPT !.knowledge = SelectSeq(@, LAMBDA s : s.cells # {})]
    IN  IF knowlege_changed THEN aditional_safe_or_mines(a3) ELSE a3

\* Lines 218-228: the two nested loops over self.knowledge, which see the
\* sentences appended while they run; i and j are the positions of
\* sentence1 and sentence2.
RECURSIVE InferenceLoop(_, _, _, _)
InferenceLoop(knowledge, i, j, knowledge_changed) ==
    IF i > Len(knowledge) THEN [knowledge |-> knowledge, changed |-> knowledge_changed]
    ELSE IF j > Len(knowledge) THEN InferenceLoop(knowledge, i + 1, 1, knowledge_changed)
    ELSE LET sentence1 == knowledge[i]
             sentence2 == knowledge[j]
             new_sentence == Sentence(sentence2.cells \ sentence1.cells,
                                      sentence2.count - sentence1.count)
         IN  IF /\ sentence1 # sentence2
                /\ sentence1.cells \subseteq sentence2.cells
                /\ \A k \in DOMAIN knowledge : knowledge[k] # new_sentence
             THEN InferenceLoop(Append(knowledge, new_sentence), i, j + 1, TRUE)
             ELSE InferenceLoop(knowledge, i, j + 1, knowledge_changed)

\* MinesweeperAI.new_rules_from_inference()
new_rules_from_inference(a) == InferenceLoop(a.knowledge, 1, 1, FALSE)

\* Lines 260-271: the loop of add_knowledge.
RECURSIVE KnowledgeLoop(_)
KnowledgeLoop(a) ==
    LET a1 == aditional_safe_or_mines(a)
        r == new_rules_from_inference(a1)
        a2 == [a1 EXCEPT !.knowledge = r.knowledge]
    IN  IF r.changed THEN KnowledgeLoop(a2) ELSE a2

\* MinesweeperAI.add_knowledge(cell, count)
add_knowledge(a, b, cell, count) ==
    LET a1 == [a EXCEPT !.moves_made = @ \cup {cell}]
        a2 == mark_safe(a1, cell)
        neighbors_ == get_neighbors(a2, b, cell)
        a3 == [a2 EXCEPT !.knowledge = Append(@, Sentence(neighbors_, count))]
    IN  KnowledgeLoop(a3)

\* No board: the state of the minesweeper variables while the crossword runs.
NoBoard == [height |-> 0, width |-> 0, mines |-> {}]

\* ------------------------------------------------------------------ state
\* The word pools drawn for a puzzle.
WordPools == { ws \in SUBSET WordUniverse : Cardinality(ws) <= MaxWords }

NoResult == [kind |-> "pending", value |-> <<>>]

\* ac3(arcs=None): no arcs argument.
NoArcs == [given |-> FALSE, list |-> <<>>]

\* The state after CrosswordCreator(crossword).
Init ==
    /\ \E g \in 1..Len(GridVariables) : variables = GridVariables[g]
    /\ words \in WordPools
    /\ varOrder \in Perms(variables)
    /\ domains = InitDomains(variables, words)
    /\ pc = "new"
    /\ inSolve = FALSE
    /\ queue = <<>>
    /\ ac3ret = "none"
    /\ ac3Calls = 0
    /\ prev = [ret |-> "none", domains |-> domains]
    /\ stack = <<>>
    /\ result = NoResult
    /\ call = [op |-> "none", assignment |-> <<>>, var |-> varOrder[1], values |-> <<>>]
    /\ arcs = NoArcs
    /\ board = NoBoard
    /\ ai = NewAI
    /\ move = None

\* solve(), line 94: the call of enforce_node_consistency().
Solve ==
    /\ pc = "new"
    /\ inSolve' = TRUE
    /\ domains' = enforce_node_consistency
    /\ pc' = "nc"
    /\ UNCHANGED << board, ai, move, arcs, variables, words, varOrder, call, queue, ac3ret, ac3Calls, prev, stack, result >>

\* enforce_node_consistency() called on its own.
EnforceNodeConsistency ==
    /\ pc = "new"
    /\ inSolve' = FALSE
    /\ domains' = enforce_node_consistency
    /\ pc' = "nc"
    /\ UNCHANGED << board, ai, move, arcs, variables, words, varOrder, call, queue, ac3ret, ac3Calls, prev, stack, result >>

\* ac3(), lines 143-152: the worklist is filled with every arc. solve() calls
\* it once (line 95); a direct caller may call it again.
Ac3Begin ==
    /\ \/ pc = "nc"
       \/ pc = "ac3done" /\ ~inSolve /\ ac3Calls < MaxAc3Calls
    /\ \E q \in InitialQueues : queue' = q
    /\ prev' = [ret |-> ac3ret, domains |-> domains]
    /\ ac3ret' = "none"
    /\ ac3Calls' = ac3Calls + 1
    /\ pc' = "ac3"
    /\ arcs' = NoArcs
    /\ UNCHANGED << board, ai, move, variables, words, varOrder, call, domains, inSolve, stack, result >>

\* The worklists a caller hands to ac3(arcs): lists of at most MaxArcs
\* arcs of the problem, in any order and with repetitions.
ArcWorklists == UNION { [1..n -> AllArcs] : n \in 0..MaxArcs }

\* ac3(arcs), lines 143-147: a direct call with a worklist of the caller's.
Ac3BeginArcs ==
    /\ pc = "nc"
    /\ ~inSolve
    /\ \E given \in ArcWorklists :
          /\ arcs' = [given |-> TRUE, list |-> given]
          /\ queue' = given
    /\ prev' = [ret |-> ac3ret, domains |-> domains]
    /\ ac3ret' = "none"
    /\ ac3Calls' = ac3Calls + 1
    /\ pc' = "ac3"
    /\ UNCHANGED << board, ai, move, variables, words, varOrder, call, domains, inSolve, stack, result >>

\* ac3(), lines 154-161: one turn of the while loop.
Ac3Step ==
    /\ pc = "ac3"
    /\ queue # <<>>
    /\ LET X == Head(queue)[1]
           Y == Head(queue)[2]
           r == revise(X, Y)
       IN  IF r.revised
           THEN /\ domains' = [domains EXCEPT ![X] = r.domain]
                /\ IF Cardinality(r.domain) = 0
                   THEN /\ ac3ret' = "False"
                        /\ queue' = <<>>
                        /\ pc' = "ac3done"
                   ELSE /\ \E zs \in Perms(ArcsToRevisit(X, Y)) :
                              queue' = Tail(queue) \o [k \in 1..Len(zs) |-> << zs[k], X >>]
                        /\ UNCHANGED << ac3ret, pc >>
           ELSE /\ queue' = Tail(queue)
                /\ UNCHANGED << domains, ac3ret, pc >>
    /\ UNCHANGED << board, ai, move, arcs, variables, words, varOrder, call, inSolve, ac3Calls, prev, stack, result >>

\* ac3(), line 163: the worklist is empty.
Ac3Return ==
    /\ pc = "ac3"
    /\ queue = <<>>
    /\ ac3ret' = "True"
    /\ pc' = "ac3done"
    /\ UNCHANGED << board, ai, move, arcs, variables, words, varOrder, call, domains, inSolve, queue, ac3Calls,
                    prev, stack, result >>

\* backtrack, lines 273-274: assignment.copy() and the store of the value in
\* the copy; the caller's mapping after the two lines, and the copy.
extend_in_place(assignment, var, value) ==
    [caller |-> (var :> value) @@ assignment, copy |-> (var :> value) @@ assignment]

extend(assignment, var, value) ==
    [caller |-> assignment, copy |-> (var :> value) @@ assignment]

\* backtrack(assignment), lines 268-272: the entry of a call, up to the list
\* of values the for loop will walk; callers are the frames of the calls
\* that are waiting for this one.
backtrack(callers, assignment) ==
    IF assignment_complete(assignment)
    THEN /\ result' = [kind |-> "assignment", value |-> assignment]
         /\ pc' = "returning"
         /\ stack' = callers
    ELSE LET var == select_unassigned_variable(assignment)
         IN  /\ \E iter \in Perms(domains[var]) :
                   stack' = Append(callers,
                       [assignment |-> assignment, var |-> var,
                        values |-> order_domain_values(var, assignment, iter), k |-> 1])
             /\ pc' = "backtrack"
             /\ result' = NoResult

\* solve(), line 96: backtrack(dict()), whatever ac3() returned.
SolveBacktrack ==
    /\ pc = "ac3done"
    /\ inSolve
    /\ backtrack(stack, <<>>)
    /\ UNCHANGED << board, ai, move, arcs, variables, words, varOrder, call, domains, inSolve, queue, ac3ret,
                    ac3Calls, prev >>

\* backtrack, lines 272-276: the next value of the for loop.
BacktrackTry ==
    /\ pc = "backtrack"
    /\ LET top == stack[Len(stack)]
       IN  /\ top.k <= Len(top.values)
           /\ LET value == top.values[top.k]
                  e == extend(top.assignment, top.var, value)
                  assignment_copy == e.copy
                  callers == [stack EXCEPT ![Len(stack)].assignment = e.caller]
              IN  IF consistent(assignment_copy)
                  THEN backtrack(callers, assignment_copy)
                  ELSE /\ stack' = [callers EXCEPT ![Len(stack)].k = top.k + 1]
                       /\ UNCHANGED << pc, result >>
    /\ UNCHANGED << board, ai, move, arcs, variables, words, varOrder, call, domains, inSolve, queue, ac3ret,
                    ac3Calls, prev >>

\* backtrack, line 279: the for loop is over, return None.
BacktrackExhausted ==
    /\ pc = "backtrack"
    /\ stack[Len(stack)].k > Len(stack[Len(stack)].values)
    /\ stack' = SubSeq(stack, 1, Len(stack) - 1)
    /\ result' = [kind |-> "None", value |-> <<>>]
    /\ pc' = "returning"
    /\ UNCHANGED << board, ai, move, arcs, variables, words, varOrder, call, domains, inSolve, queue, ac3ret,
                    ac3Calls, prev >>

\* backtrack, lines 276-278: the recursive call has returned to its caller.
BacktrackResume ==
    /\ pc = "returning"
    /\ stack # <<>>
    /\ IF result.kind = "assignment"
       THEN /\ stack' = SubSeq(stack, 1, Len(stack) - 1)
            /\ UNCHANGED << pc, result >>
       ELSE /\ stack' = [stack EXCEPT ![Len(stack)].k = stack[Len(stack)].k + 1]
            /\ pc' = "backtrack"
            /\ result' = NoResult
    /\ UNCHANGED << board, ai, move, arcs, variables, words, varOrder, call, domains, inSolve, queue, ac3ret,
                    ac3Calls, prev >>

\* solve(), line 96: the outermost backtrack() has returned; solve returns it.
SolveReturn ==
    /\ pc = "returning"
    /\ stack = <<>>
    /\ pc' = "done"
    /\ UNCHANGED << board, ai, move, arcs, variables, words, varOrder, call, domains, inSolve, queue, ac3ret,
                    ac3Calls, prev, stack, result >>

\* The assignments handed to a direct call of a heuristic: any set of
\* variables, each with a word of its current domain.
TestAssignments ==
    { [v \in S |-> CHOOSE w \in domains[v] : TRUE] :
        S \in SUBSET { v \in variables : domains[v] # {} } }

\* select_unassigned_variable(assignment) called on its own, on an
\* assignment that leaves a variable unassigned.
CallSelectUnassignedVariable ==
    /\ pc \in {"nc", "ac3done"}
    /\ ~inSolve
    /\ \E a \in TestAssignments :
          /\ DOMAIN a # variables
          /\ call' = [op |-> "select", assignment |-> a,
                      var |-> select_unassigned_variable(a), values |-> <<>>]
    /\ pc' = "called"
    /\ UNCHANGED << board, ai, move, arcs, variables, words, varOrder, domains, inSolve, queue, ac3ret,
                    ac3Calls, prev, stack, result >>

\* order_domain_values(var, assignment) called on its own.
CallOrderDomainValues ==
    /\ pc \in {"nc", "ac3done"}
    /\ ~inSolve
    /\ \E a \in TestAssignments, var \in variables :
          \E iter \in Perms(domains[var]) :
             call' = [op |-> "order", assignment |-> a, var |-> var,
                      values |-> order_domain_values(var, a, iter)]
    /\ pc' = "called"
    /\ UNCHANGED << board, ai, move, arcs, variables, words, varOrder, domains, inSolve, queue, ac3ret,
                    ac3Calls, prev, stack, result >>

\* revise(x, y) called on its own, on node-consistent domains.
CallRevise ==
    /\ pc \in {"nc", "ac3done"}
    /\ ~inSolve
    /\ \E x \in variables, y \in variables :
          /\ x # y
          /\ LET r == revise(x, y)
             IN  /\ domains' = [domains EXCEPT ![x] = r.domain]
                 /\ call' = [op |-> "revise", x |-> x, y |-> y, before |-> domains,
                             ret |-> r.revised]
    /\ pc' = "called"
    /\ UNCHANGED << board, ai, move, arcs, variables, words, varOrder, inSolve, queue, ac3ret,
                    ac3Calls, prev, stack, result >>

Next ==
    \/ Solve
    \/ EnforceNodeConsistency
    \/ Ac3Begin
    \/ Ac3Step
    \/ Ac3Return
    \/ SolveBacktrack
    \/ BacktrackTry
    \/ BacktrackExhausted
    \/ BacktrackResume
    \/ SolveReturn
    \/ CallSelectUnassignedVariable
    \/ CallOrderDomainValues
    \/ CallRevise

Spec == Init /\ [][Next]_vars

\* ------------------------------------------- ac3() called on any worklist
\* One call of ac3() on each CrosswordCreator, right after node consistency.
NextAc3 ==
    \/ EnforceNodeConsistency
    \/ pc = "nc" /\ Ac3Begin
    \/ Ac3BeginArcs
    \/ Ac3Step
    \/ Ac3Return

\* A call of ac3() keeps running: the while loop takes its next turn and the
\* return statement is executed when it is reached.
SpecAc3 == Init /\ [][NextAc3]_vars /\ WF_vars(Ac3Step) /\ WF_vars(Ac3Return)

\* --------------------------------------------------- Minesweeper: the game
\* The crossword variables while the minesweeper runs.
NoCrossword ==
    /\ variables = {}
    /\ words = {}
    /\ varOrder = <<>>
    /\ domains = <<>>
    /\ pc = "minesweeper"
    /\ inSolve = FALSE
    /\ queue = <<>>
    /\ ac3ret = "none"
    /\ ac3Calls = 0
    /\ prev = [ret |-> "none", domains |-> <<>>]
    /\ stack = <<>>
    /\ result = NoResult
    /\ call = [op |-> "none"]
    /\ arcs = NoArcs

crosswordVars == << variables, words, varOrder, domains, pc, inSolve, queue, ac3ret,
                   ac3Calls, prev, stack, result, call, arcs >>

\* The state after Minesweeper(height, width, mines) and MinesweeperAI(height,
\* width): a board with mines on any cells, an AI that knows nothing.
InitMinesweeper ==
    /\ NoCrossword
    /\ \E size \in BoardSizes :
          \E mines \in SUBSET ((0..(size[1] - 1)) \X (0..(size[2] - 1))) :
             board = [height |-> size[1], width |-> size[2], mines |-> mines]
    /\ ai = NewAI
    /\ move = None

\* add_knowledge(cell, count), called as the game does: for a cell that is
\* not a mine and has not been played, with the board's count for that cell.
AddKnowledge ==
    /\ Cardinality(ai.moves_made) < MaxMoves
    /\ \E cell \in (BoardCells(board) \ board.mines) \ ai.moves_made :
          ai' = add_knowledge(ai, board, cell, nearby_mines(board, cell))
    /\ move' = None
    /\ UNCHANGED << board, crosswordVars >>

\* make_safe_move(): some cell of self.safes - self.moves_made, or None.
MakeSafeMove ==
    /\ LET safe_moves == ai.safes \ ai.moves_made
       IN  IF Cardinality(safe_moves) > 0
           THEN \E m \in safe_moves : move' = m
           ELSE move' = None
    /\ UNCHANGED << board, ai, crosswordVars >>

NextMinesweeper ==
    \/ AddKnowledge
    \/ MakeSafeMove

SpecMinesweeper == InitMinesweeper /\ [][NextMinesweeper]_vars


\* ------------------------------------------------------------- properties
\* The three constraints of the puzzle on a complete assignment a: it maps
\* every variable to a word, the words are pairwise distinct, each has its
\* variable's length, and overlapping variables agree on the shared cell.
ValidSolution(a) ==
    /\ DOMAIN a = variables
    /\ \A x, y \in variables : x # y => a[x] # a[y]
    /\ \A v \in variables : Len(a[v]) = v.length
    /\ \A x, y \in variables :
          (x # y /\ overlaps(x, y) # None)
             => a[x][overlaps(x, y)[1] + 1] = a[y][overlaps(x, y)[2] + 1]

\* Every complete assignment of pool words that satisfies the constraints.
Solutions == { a \in [variables -> words] : ValidSolution(a) }

SolveReturned == inSolve /\ pc = "done"

\* C1: whenever solve() returns an assignment, it maps every variable to a
\* word, the words are pairwise distinct, each word has its variable's
\* length and overlapping variables hold the same letter at the overlap.
C1_SolutionValid ==
    (SolveReturned /\ result.kind = "assignment") => ValidSolution(result.value)

\* C1 witness: solve() has returned an assignment for the three-slot grid.
C1_Witness ==
    SolveReturned /\ result.kind = "assignment" /\ Cardinality(variables) = 3

\* C2: whenever solve() returns None, no complete assignment satisfies the
\* three constraints.
C2_FailureCorrect ==
    (SolveReturned /\ result.kind = "None") => Solutions = {}

\* C2 witness: solve() has returned None after ac3() returned True with no
\* domain empty, so the failure comes from the search.
C2_Witness ==
    /\ SolveReturned
    /\ result.kind = "None"
    /\ ac3ret = "True"
    /\ \A v \in variables : domains[v] # {}


\* A call of backtrack() is under way: entered and not yet returned to solve().
InBacktrack == pc \in {"backtrack", "returning"}

\* C3 as stated: in solve(), backtrack is never invoked after ac3() has
\* returned False (and the result is failure).
C3_NoSearchAfterAc3Failure ==
    (inSolve /\ ac3ret = "False")
        => /\ ~InBacktrack
           /\ stack = <<>>
           /\ (pc = "done" => result.kind = "None")

\* C3 amended: in solve(), after ac3() has returned False, backtrack is
\* invoked once on the empty assignment, tries no value and makes no
\* recursive call (the variable it selects has an empty domain), and the
\* result of solve() is failure.
C3_Ac3FailureGivesFailure ==
    (inSolve /\ ac3ret = "False" /\ (InBacktrack \/ pc = "done"))
        => /\ Len(stack) <= 1
           /\ \A f \in 1..Len(stack) :
                 stack[f].assignment = <<>> /\ stack[f].values = <<>>
           /\ result.kind # "assignment"
           /\ (pc = "done" => result.kind = "None")

\* C3 witness: solve() has returned after an ac3() that returned False.
C3_Witness == SolveReturned /\ ac3ret = "False" /\ result.kind = "None"

\* C4: ac3() returns True only if no domain is empty when it returns, and
\* returns False if one or more domains end up empty.
C4_Ac3ReportsEmptyDomains ==
    pc = "ac3done"
        => (ac3ret = "True" <=> \A v \in variables : domains[v] # {})

\* C5: after ac3() with the full worklist has returned True, every word of
\* X's domain has a word of Y's domain agreeing with it at the overlap, for
\* every ordered pair (X, Y) with an overlap.
C5_ArcConsistent ==
    (pc = "ac3done" /\ ac3ret = "True")
        => \A X, Y \in variables :
              (X # Y /\ overlaps(X, Y) # None)
                 => \A wx \in domains[X] : \E wy \in domains[Y] :
                       wx[overlaps(X, Y)[1] + 1] = wy[overlaps(X, Y)[2] + 1]

\* The words of the pool that have v's length.
WordsOfLength(v) == { w \in words : Len(w) = v.length }

\* C5 witness: ac3() has returned True after removing a word, and has left
\* no domain empty.
C5_Witness ==
    /\ pc = "ac3done"
    /\ ac3ret = "True"
    /\ ac3Calls = 1
    /\ \E v \in variables : domains[v] # WordsOfLength(v)
    /\ \A v \in variables : domains[v] # {}

\* Every word of every domain has the length of its variable.
LengthInvariant ==
    \A v \in variables : \A w \in domains[v] : Len(w) = v.length

\* C6 as stated: at all times from construction onward every word in a
\* variable's domain has the variable's length.
C6_LengthInvariantAlways == LengthInvariant

\* C6 amended: at all times after enforce_node_consistency() has run
\* (through AC-3 and search), every word in a variable's domain has the
\* variable's length.
C6_LengthInvariantAfterNodeConsistency == pc # "new" => LengthInvariant

\* C6 witness: node consistency has run on a pool that holds a word of
\* another length than some variable's, whose domain is not empty.
C6_Witness ==
    /\ pc # "new"
    /\ \E v \in variables :
          /\ domains[v] # {}
          /\ \E w \in words : Len(w) # v.length


\* The unassigned variables of an assignment.
Unassigned(assignment) == variables \ DOMAIN assignment

\* The calls of select_unassigned_variable on record: one per frame of
\* backtrack (its assignment, the variable returned) and the direct call.
SelectCalls ==
    { [assignment |-> stack[f].assignment, var |-> stack[f].var] : f \in 1..Len(stack) }
    \cup (IF call.op = "select"
          THEN { [assignment |-> call.assignment, var |-> call.var] } ELSE {})

\* C7: select_unassigned_variable(assignment) returns an unassigned
\* variable whose domain size is minimal among the unassigned variables and,
\* among those that tie on that size, one with the largest number of
\* neighbors.
C7_SelectMrvThenDegree ==
    \A c \in SelectCalls :
        /\ c.var \in Unassigned(c.assignment)
        /\ \A u \in Unassigned(c.assignment) :
              Cardinality(domains[c.var]) <= Cardinality(domains[u])
        /\ \A u \in Unassigned(c.assignment) :
              Cardinality(domains[u]) = Cardinality(domains[c.var])
                 => Cardinality(neighbors(u)) <= Cardinality(neighbors(c.var))

\* C8: domains only ever shrink: every step leaves each variable's domain
\* a subset of what it was.
C8_DomainsOnlyShrink ==
    [][\A v \in variables : domains'[v] \subseteq domains[v]]_vars

\* C8 witness: ac3() has returned after both the length filter and a
\* revision removed words from some variable's domain.
C8_Witness ==
    /\ pc = "ac3done"
    /\ \E v \in variables :
          /\ WordsOfLength(v) # words
          /\ domains[v] # WordsOfLength(v)
          /\ domains[v] # {}

\* C9: if ac3() has returned True, running ac3() again returns True and
\* leaves every variable's domain unchanged. prev holds what the call before
\* returned and the domains it left.
C9_Ac3Idempotent ==
    (pc = "ac3done" /\ ac3Calls >= 2 /\ prev.ret = "True")
        => (ac3ret = "True" /\ domains = prev.domains)

\* C9 witness: a second ac3() has returned, after a first one that removed
\* a word, left no domain empty and returned True.
C9_Witness ==
    /\ pc = "ac3done"
    /\ ac3Calls = 2
    /\ prev.ret = "True"
    /\ \E v \in variables : prev.domains[v] # WordsOfLength(v)
    /\ \A v \in variables : prev.domains[v] # {}

\* The elimination count of a word of var's domain: the number of pairs
\* (neighbor, word of the neighbor's domain), over the neighbors of var that
\* are not assigned and overlap var, whose letter at the overlap differs.
Eliminations(word, var, assignment) ==
    Cardinality(
        { p \in (neighbors(var) \ DOMAIN assignment) \X words :
            /\ overlaps(var, p[1]) # None
            /\ p[2] \in domains[p[1]]
            /\ word[overlaps(var, p[1])[1] + 1] # p[2][overlaps(var, p[1])[2] + 1] })

\* The calls of order_domain_values on record: one per frame of backtrack
\* (its assignment, its variable, the list returned) and the direct call.
OrderCalls ==
    { [assignment |-> stack[f].assignment, var |-> stack[f].var,
       values |-> stack[f].values] : f \in 1..Len(stack) }
    \cup (IF call.op = "order"
          THEN { [assignment |-> call.assignment, var |-> call.var,
                  values |-> call.values] } ELSE {})

\* C10: order_domain_values(var, assignment) returns a permutation of var's
\* domain in non-decreasing order of elimination count.
C10_OrderedByEliminations ==
    \A c \in OrderCalls :
        /\ Len(c.values) = Cardinality(domains[c.var])
        /\ { c.values[k] : k \in 1..Len(c.values) } = domains[c.var]
        /\ \A k, l \in 1..Len(c.values) :
              k < l => Eliminations(c.values[k], c.var, c.assignment)
                          <= Eliminations(c.values[l], c.var, c.assignment)

\* C10 witness: a call whose variable has an assigned and an unassigned
\* neighbor and whose list holds words of different elimination counts.
C10_Witness ==
    \E c \in OrderCalls :
        /\ neighbors(c.var) \cap DOMAIN c.assignment # {}
        /\ neighbors(c.var) \ DOMAIN c.assignment # {}
        /\ Len(c.values) >= 2
        /\ Eliminations(c.values[1], c.var, c.assignment)
              < Eliminations(c.values[Len(c.values)], c.var, c.assignment)

\* C11: the knowledge of the MinesweeperAI is sound. After any sequence of
\* add_knowledge(cell, count) calls with non-mine cells and the board's true
\* counts, every cell of ai.mines is a mine of the board, no cell of ai.safes
\* is a mine, and make_safe_move() returns None or a cell of ai.safes that is
\* not in moves_made and not a mine.
C11_KnowledgeSound ==
    pc = "minesweeper" =>
        /\ ai.mines \subseteq board.mines
        /\ ai.safes \cap board.mines = {}
        /\ move # None => /\ move \in ai.safes
                          /\ move \notin ai.moves_made
                          /\ move \notin board.mines

\* C12: ac3() always terminates. For every puzzle and every initial worklist
\* a running ac3() eventually returns (the worklist is empty, or a domain is,
\* and False is returned), because a turn of the loop that does not shorten
\* the worklist has strictly shrunk a domain.
C12_Ac3Terminates ==
    /\ [][(pc = "ac3" /\ pc' = "ac3" /\ Len(queue') >= Len(queue))
            => \E v \in variables :
                  /\ domains'[v] \subseteq domains[v]
                  /\ domains'[v] # domains[v]]_vars
    /\ (pc = "ac3") ~> (pc = "ac3done" /\ queue = <<>>)

\* ac3(arcs) has returned after revising an arc that was not in the worklist
\* it was given: one put back by line 161.
C12_Witness ==
    /\ pc = "ac3done"
    /\ arcs.given
    /\ \E v \in variables :
          /\ domains[v] # prev.domains[v]
          /\ \A k \in DOMAIN arcs.list : arcs.list[k][1] # v

\* C13: revise(x, y) on node-consistent domains removes from x's domain
\* exactly the words that have no agreeing word in y's domain at the overlap
\* (every supported word is kept), returns True exactly when it removed a
\* word, leaves every other domain as it was, and without an overlap removes
\* nothing and returns False.
C13_ReviseExact ==
    (pc = "called" /\ call.op = "revise") =>
        LET x == call.x
            y == call.y
            before == call.before
            overlap == overlaps(x, y)
            supported(word_x) ==
                \E word_y \in before[y] : word_x[overlap[1] + 1] = word_y[overlap[2] + 1]
        IN  /\ \A v \in variables \ {x} : domains[v] = before[v]
            /\ call.ret <=> (before[x] \ domains[x] # {})
            /\ domains[x] \subseteq before[x]
            /\ IF overlap = None
               THEN domains[x] = before[x] /\ call.ret = FALSE
               ELSE \A word_x \in before[x] : word_x \in domains[x] <=> supported(word_x)

\* A revise(x, y) over an overlap that removed a word and kept another.
C13_Witness ==
    /\ pc = "called"
    /\ call.op = "revise"
    /\ overlaps(call.x, call.y) # None
    /\ call.ret
    /\ domains[call.x] # {}
    /\ domains[call.x] # call.before[call.x]

\* A revise(x, y) of two variables that do not overlap.
C13_WitnessNoOverlap ==
    /\ pc = "called"
    /\ call.op = "revise"
    /\ overlaps(call.x, call.y) = None

\* C14: backtracking search leaves shared state untouched across branches.
\* No step of backtrack(), entering a call, trying a value or returning with
\* or without a result, changes self.domains or the assignment mapping of a
\* call that is still running, so the caller of a call that returned finds
\* its own mapping and the domains as they were before the call.
C14_BranchesLeaveStateUntouched ==
    [][(pc \in {"backtrack", "returning"} \/ pc' \in {"backtrack", "returning"})
          => /\ domains' = domains
             /\ \A f \in 1..Len(stack) :
                   f <= Len(stack') => stack'[f].assignment = stack[f].assignment]_vars

\* The for loop of a call tries the sibling of a value whose recursive call
\* has returned None.
C14_Witness ==
    /\ pc = "backtrack"
    /\ stack # <<>>
    /\ LET top == stack[Len(stack)]
       IN  /\ top.k >= 2
           /\ top.k <= Len(top.values)
           /\ consistent((top.var :> top.values[top.k - 1]) @@ top.assignment)
           /\ ~assignment_complete((top.var :> top.values[top.k - 1]) @@ top.assignment)

=============================================================================
